---- MODULE Spec2Model ----
(***************************************************************************)
(* A model of the kobuki serial driver (kobuki_driver/src/driver/          *)
(* kobuki.cpp): the command encoder (setCommand, sendCommand), the packet  *)
(* finder's checksum, the worker loop (runnable) with its dispatch and     *)
(* signal phases, and the owner-side calls (init, run, stop, close,        *)
(* setCommand, sendCommand(record)) interleaved with the worker.           *)
(*                                                                         *)
(* Units.  The code takes vx [m/s] and wz [rad/s] as doubles.  The model   *)
(* carries them as integers in 1/1000 units (mm/s and mrad/s); bias is     *)
(* carried in mm.  On the grids used below every double operation of       *)
(* setCommand yields a value whose truncation equals the truncation of the *)
(* exact rational value, so the integer arithmetic gives the code's result.*)
(***************************************************************************)
EXTENDS Integers, Sequences, FiniteSets, TLC

(***************************************************************************)
(* Bounds of the exploration                                               *)
(***************************************************************************)
GridN == 2
MaxCalls == 2
MaxFrames == 2

(***************************************************************************)
(* Bytes                                                                   *)
(***************************************************************************)
\* bit k of the XOR of s[lo] .. s[hi] (1-based)
XorBit(s, lo, hi, k) ==
  Cardinality({i \in lo .. hi : (s[i] \div (2 ^ k)) % 2 = 1}) % 2

\* XOR of the bytes s[lo] .. s[hi] (an empty range gives 0): the cs ^= loops
XorRange(s, lo, hi) ==
  XorBit(s, lo, hi, 0) + 2 * XorBit(s, lo, hi, 1) + 4 * XorBit(s, lo, hi, 2)
  + 8 * XorBit(s, lo, hi, 3) + 16 * XorBit(s, lo, hi, 4)
  + 32 * XorBit(s, lo, hi, 5) + 64 * XorBit(s, lo, hi, 6)
  + 128 * XorBit(s, lo, hi, 7)

\* union_sint16: byte[0] is the low byte, byte[1] the high byte of the word
Byte0(word) == (word % 65536) % 256
Byte1(word) == (word % 65536) \div 256

\* (short) of an integral value: two's-complement 16-bit
Short(x) ==
  LET m == x % 65536 IN IF m >= 32768 THEN m - 65536 ELSE m

\* conversion of a rational num/den to an integer type: toward zero
TruncDiv(num, den) ==
  LET q == (IF num < 0 THEN -num ELSE num) \div (IF den < 0 THEN -den ELSE den)
  IN  IF (num < 0) = (den < 0) THEN q ELSE -q

\* the nearest integer to num/den, halves away from zero (round())
RoundDiv(num, den) ==
  LET an == IF num < 0 THEN -num ELSE num
      ad == IF den < 0 THEN -den ELSE den
      q  == (2 * an + ad) \div (2 * ad)
  IN  IF (num < 0) = (den < 0) THEN q ELSE -q

Max(a, b) == IF a >= b THEN a ELSE b

(***************************************************************************)
(* Command encoder                                                         *)
(***************************************************************************)
\* wheelbase in mm (bias = 0.298 m)
bias == 298

\* Kobuki::setCommand, the radius branch chain; vx in mm/s, wz in mrad/s
setCommand_radius(vx, wz) ==
  IF wz = 0 THEN 0
  ELSE IF vx = 0 /\ wz > 0 THEN 1
  ELSE IF vx = 0 /\ wz < 0 THEN -1
  ELSE Short(TruncDiv(vx * 1000, wz))

\* Kobuki::setCommand, speed = (short)(1000 * max(vx + bias*wz/2, vx - bias*wz/2))
\* 1000 * (vx + bias*wz/2) [mm/s] = (2000*vx + bias*wz) / 2000 in model units
setCommand_speed(vx, wz) ==
  Short(TruncDiv(Max(2000 * vx + bias * wz, 2000 * vx - bias * wz), 2000))

\* the last index (0-based) of the checksum loop of sendCommand(): i <= 6
CsLast == 6

\* Kobuki::sendCommand(): the 9 bytes handed to serial.write
sendCommand_cmd(sp, rad) ==
  LET cmd == <<170, 85, 5, 1, Byte0(sp), Byte1(sp), Byte0(rad), Byte1(rad)>>
      cs  == XorRange(cmd, 2 + 1, CsLast + 1)
  IN  cmd \o <<cs>>

(***************************************************************************)
(* Packet finder                                                           *)
(***************************************************************************)
\* a checksum that leaves the length byte out
checkSum_payload_only(buffer) == XorRange(buffer, 3 + 1, Len(buffer)) = 0

\* PacketFinder::checkSum: XOR of buffer[2 ..] is zero
checkSum(buffer) == XorRange(buffer, 2 + 1, Len(buffer)) = 0

\* packet_finder.configure(stx, etx, 1, 64, 1, true): the two STX bytes
STX1 == 170
STX2 == 85

\* a finder that takes every length byte but 0
MaxPayload_any == 256 - 1

\* configure(stx, etx, 1, 64, 1, true): the largest payload length
MaxPayload == 64

\* the finder after configure(): syncing, nothing buffered, nothing delivered
PF_configure == [state |-> "WaitSTX1", buffer |-> <<>>, packet |-> <<>>]

\* one byte through the finder's state machine; found marks a delivery
PF_step(pf, b) ==
  LET resync == [pf |-> [pf EXCEPT !.state = "WaitSTX1", !.buffer = <<>>],
                 found |-> FALSE]
      go(st, bf) == [pf |-> [pf EXCEPT !.state = st, !.buffer = bf],
                     found |-> FALSE]
  IN  CASE pf.state = "WaitSTX1" ->
             IF b = STX1 THEN go("WaitSTX2", <<STX1>>) ELSE resync
        [] pf.state = "WaitSTX2" ->
             IF b = STX2 THEN go("WaitLength", <<STX1, STX2>>)
             ELSE IF b = STX1 THEN go("WaitSTX2", <<STX1>>)
             ELSE resync
        [] pf.state = "WaitLength" ->
             IF b = 0 \/ b > MaxPayload THEN resync
             ELSE go("ReadPayload", Append(pf.buffer, b))
        [] pf.state = "ReadPayload" ->
             LET bf == Append(pf.buffer, b)
             IN  IF Len(bf) - 3 = bf[3] THEN go("VerifyChecksum", bf)
                 ELSE go("ReadPayload", bf)
        [] pf.state = "VerifyChecksum" ->
             LET bf == Append(pf.buffer, b)
             IN  IF checkSum(bf)
                 THEN [pf |-> [state |-> "WaitSTX1", buffer |-> <<>>,
                               packet |-> bf],
                       found |-> TRUE]
                 ELSE resync

\* packet_finder.update(buf, n): every byte of buf, in order; true when a
\* frame was completed by these bytes
RECURSIVE PF_update(_, _)
PF_update(pf, bytes) ==
  IF bytes = <<>> THEN [pf |-> pf, found |-> FALSE, count |-> 0]
  ELSE LET one  == PF_step(pf, Head(bytes))
           rest == PF_update(one.pf, Tail(bytes))
       IN  [pf    |-> rest.pf,
            found |-> one.found \/ rest.found,
            count |-> rest.count + (IF one.found THEN 1 ELSE 0)]

\* packet_finder.numberOfDataToRead(): 1 while syncing, the declared length
\* plus the checksum byte while the payload is read
PF_numberOfDataToRead(pf) ==
  IF pf.state = "ReadPayload" THEN pf.buffer[3] + 1 ELSE 1

\* packet_finder.getBuffer(data_buffer): the whole frame last assembled
PF_getBuffer(pf) == pf.packet

(***************************************************************************)
(* Header ids and observer signals                                         *)
(***************************************************************************)
\* kobuki_comms::Header: default is 0x01 and dock_ir is 0x03; the other ids
\* follow the numbering of the same message definition
header_default == 1
header_ir == 2
header_dock_ir == 3
header_inertia == 4
header_cliff == 5
header_current == 6
header_magnet == 7
header_time == 8
header_hw == 10
header_fw == 11
header_st_gyro == 13
header_eeprom == 15
header_gp_input == 16

\* the case labels of the dispatch switch
Recognised ==
  {header_default, header_ir, header_dock_ir, header_inertia, header_cliff,
   header_current, header_magnet, header_time, header_hw, header_fw,
   header_st_gyro, header_eeprom, header_gp_input}

\* the emit() calls of one case of the signal switch, in order
SignalsOf(id) ==
  CASE id = header_default -> <<"sensor_data", "joint_state">>
    [] id = header_ir -> <<"ir">>
    [] id = header_dock_ir -> <<"dock_ir">>
    [] id = header_inertia -> <<"inertia">>
    [] id = header_cliff -> <<"cliff">>
    [] id = header_current -> <<"current">>
    [] id = header_magnet -> <<"magnet">>
    [] id = header_time -> <<"time">>
    [] id = header_hw -> <<"hw">>
    [] id = header_fw -> <<"fw">>
    [] id = header_st_gyro -> <<"st_gyro">>
    [] id = header_eeprom -> <<"eeprom">>
    [] id = header_gp_input -> <<"gp_input">>
    [] OTHER -> <<>>

\* a sub-record decoder: removes HDR, SUBLEN and SUBLEN data bytes
deserialise(db) == SubSeq(db, 2 + db[2] + 1, Len(db))

\* an iteration that starts at the largest element
set_begin_largest(S) == CHOOSE x \in S : \A y \in S : x >= y

\* std::set<unsigned char>: begin() is the smallest element
set_begin(S) == CHOOSE x \in S : \A y \in S : x <= y

\* data_buffer.pop_front() three times: STX STX LEN leave the buffer
pop_front3(db) == SubSeq(db, 4, Len(db))

\* a clear() that leaves the set as it was
sig_index_kept(S) == S

\* sig_index.clear()
sig_index_clear(S) == {}

\* a tick that sends whatever get_packet is
tick_sends_always(gp) == TRUE

\* a tick sends the motion command iff get_packet
tick_sends(gp) == gp

(***************************************************************************)
(* State                                                                   *)
(***************************************************************************)
VARIABLES
  simulation,        \* Kobuki::simulation
  protocol_version,  \* Kobuki::protocol_version
  is_connected,      \* Kobuki::is_connected
  is_running,        \* Kobuki::is_running
  is_enabled,        \* Kobuki::is_enabled
  speed,             \* Kobuki::speed
  radius,            \* Kobuki::radius
  pf,                \* Kobuki::packet_finder
  data_buffer,       \* Kobuki::data_buffer
  sig_index,         \* Kobuki::sig_index
  pc,                \* per thread: the statement it is about to execute
  union_speed,       \* per thread: sendCommand()'s local union_speed.word
  union_radius,      \* per thread: sendCommand()'s local union_radius.word
  buf,               \* runnable: the n bytes of buf filled by serial.read
  get_packet,        \* runnable: get_packet
  it,                \* runnable: the ids the iterator 'it' has not visited yet
  call,              \* the owner's call in progress and its arguments
  calls,             \* number of owner calls made after init
  rx,                \* the bytes the device sends that are not read yet
  writing,           \* the threads inside serial.write
  tx,                \* per thread: the bytes of its last serial.write
  io,                \* the kinds of serial operation performed so far
  trace,             \* the worker's events of the current tick, in order
  frame,             \* the frame last taken from the packet finder
  signalled,         \* the ids signalled in the ticks before the current one
  issued,            \* the (speed, radius) pairs requested by single calls
  done_ops,          \* the owner calls that have returned
  c_phase,           \* encoder harness: idle, set, sent, parsed
  c_found,           \* encoder harness: frames the finder found in the bytes
  kobuki_default,    \* Kobuki::kobuki_default.data: the last default record
  init_l,            \* updateOdometry: static bool init_l
  init_r,            \* updateOdometry: static bool init_r
  last_tick_left,    \* Kobuki::last_tick_left
  last_tick_right,   \* Kobuki::last_tick_right
  last_rad_left,     \* Kobuki::last_rad_left, in units of tick_to_rad
  last_rad_right,    \* Kobuki::last_rad_right, in units of tick_to_rad
  last_timestamp,    \* Kobuki::last_timestamp
  last_diff_time,    \* Kobuki::last_diff_time, in milliseconds
  last_velocity_left,   \* Kobuki::last_velocity_left, ticks per millisecond
  last_velocity_right,  \* Kobuki::last_velocity_right, ticks per millisecond
  wheel_left_velocity,  \* updateOdometry: the out-parameter
  wheel_right_velocity, \* updateOdometry: the out-parameter
  o_phase,           \* odometry harness: off, init, sampled, updated
  o_inits,           \* odometry harness: number of init() calls so far
  before,            \* the odometry fields when the last updateOdometry began
  history,           \* per updateOdometry since init(): its sample and deltas
  f_phase,           \* finder harness: off, idle, feed, found
  f_stream,          \* finder harness: the whole byte stream of the run
  f_last,            \* finder harness: the last update: finder before, bytes, result
  f_taken            \* finder harness: the payloads taken with getBuffer

vars ==
  <<simulation, protocol_version, is_connected, is_running, is_enabled,
    speed, radius, pf, data_buffer, sig_index, pc, union_speed, union_radius,
    buf, get_packet, it, call, calls, rx, writing, tx, io, trace, frame,
    signalled, issued, done_ops, c_phase, c_found, kobuki_default, init_l,
    init_r, last_tick_left, last_tick_right, last_rad_left, last_rad_right,
    last_timestamp, last_diff_time, last_velocity_left, last_velocity_right,
    wheel_left_velocity, wheel_right_velocity, o_phase, o_inits, before,
    history, f_phase, f_stream, f_last, f_taken>>

Threads == {"worker", "owner"}

NoData ==
  [command |-> "none", speed |-> 0, radius |-> 0, bytes |-> <<>>, ok |-> TRUE]

NoCall == [op |-> "none", vx |-> 0, wz |-> 0, data |-> NoData]

\* a velocity delta / dt as the pair of its terms; 0.0 is 0 / 1
Velocity(delta, dt) == [num |-> delta, den |-> dt]
ZeroVelocity == Velocity(0, 1)

\* the object after construction, before init()
Constructed ==
  /\ simulation = FALSE
  /\ protocol_version = ""
  /\ is_connected = FALSE
  /\ is_running = FALSE
  /\ is_enabled = FALSE
  /\ speed = 0
  /\ radius = 0
  /\ pf = PF_configure
  /\ data_buffer = <<>>
  /\ sig_index = {}
  /\ pc = [t \in Threads |-> "idle"]
  /\ union_speed = [t \in Threads |-> 0]
  /\ union_radius = [t \in Threads |-> 0]
  /\ buf = <<>>
  /\ get_packet = FALSE
  /\ it = {}
  /\ call = NoCall
  /\ calls = 0
  /\ rx = <<>>
  /\ writing = {}
  /\ tx = [t \in Threads |-> <<>>]
  /\ io = {}
  /\ trace = <<>>
  /\ frame = <<>>
  /\ signalled = {}
  /\ issued = {}
  /\ done_ops = {}
  /\ c_found = 0
  /\ kobuki_default = [time_stamp |-> 0, left_encoder |-> 0, right_encoder |-> 0]
  /\ init_l = FALSE
  /\ init_r = FALSE
  /\ last_tick_left = 0
  /\ last_tick_right = 0
  /\ last_rad_left = 0
  /\ last_rad_right = 0
  /\ last_timestamp = 0
  /\ last_diff_time = 0
  /\ last_velocity_left = ZeroVelocity
  /\ last_velocity_right = ZeroVelocity
  /\ wheel_left_velocity = ZeroVelocity
  /\ wheel_right_velocity = ZeroVelocity
  /\ o_inits = 0
  /\ before = <<>>
  /\ history = <<>>
  /\ f_stream = <<>>
  /\ f_last = [pf |-> PF_configure, bytes |-> <<>>, found |-> FALSE]
  /\ f_taken = <<>>

Init == Constructed /\ c_phase = "off" /\ o_phase = "off" /\ f_phase = "off"

cfgv == <<simulation, protocol_version, is_connected, is_running, is_enabled>>
workerv ==
  <<pf, data_buffer, sig_index, buf, get_packet, it, trace, frame, signalled>>
sendv == <<union_speed, union_radius>>
ownerv == <<call, calls, issued, done_ops>>
serialv == <<writing, tx, io>>
odomv ==
  <<kobuki_default, init_l, init_r, last_tick_left, last_tick_right,
    last_rad_left, last_rad_right, last_timestamp, last_diff_time,
    last_velocity_left, last_velocity_right, wheel_left_velocity,
    wheel_right_velocity, o_phase, o_inits, before, history>>
finderv == <<f_phase, f_stream, f_last, f_taken>>
codecv == <<c_phase, c_found, odomv, finderv>>

(***************************************************************************)
(* The command encoder on its own: one request, one sendCommand(), and the *)
(* written bytes handed to a packet finder                                 *)
(***************************************************************************)
VxGrid == {250 * i : i \in (0 - GridN) .. GridN}
WzGrid == {500 * j : j \in (0 - GridN) .. GridN}
Int16Samples == {-32768, -256, -1, 0, 1, 255, 256, 32767}

\* requests whose turning radius vx * 1000 / wz is not a whole number
TurnInputs == {<<250, 1500>>, <<-250, 1500>>, <<500, -1500>>}

MotionGrid == (VxGrid \X WzGrid) \cup TurnInputs

InitCodec ==
  Constructed /\ c_phase = "idle" /\ o_phase = "off" /\ f_phase = "off"

\* setCommand(vx, wz), run to completion
C_setCommand(vx, wz) ==
  /\ c_phase = "idle"
  /\ radius' = setCommand_radius(vx, wz)
  /\ speed' = setCommand_speed(vx, wz)
  /\ call' = [op |-> "setCommand", vx |-> vx, wz |-> wz, data |-> NoData]
  /\ c_phase' = "set"
  /\ UNCHANGED <<cfgv, workerv, sendv, serialv, pc, rx, calls, issued,
                 done_ops, c_found, odomv, finderv>>

\* the tail of sendCommand(record) for a base-control record
C_baseControl(sp, rad) ==
  /\ c_phase = "idle"
  /\ radius' = rad
  /\ speed' = sp
  /\ call' = [op |-> "sendCommand", vx |-> 0, wz |-> 0,
              data |-> [command |-> "commandBaseControl", speed |-> sp,
                        radius |-> rad, bytes |-> <<>>, ok |-> TRUE]]
  /\ c_phase' = "set"
  /\ UNCHANGED <<cfgv, workerv, sendv, serialv, pc, rx, calls, issued,
                 done_ops, c_found, odomv, finderv>>

\* sendCommand(), run to completion
C_sendCommand ==
  /\ c_phase = "set"
  /\ union_speed' = [union_speed EXCEPT !["owner"] = speed]
  /\ union_radius' = [union_radius EXCEPT !["owner"] = radius]
  /\ tx' = [tx EXCEPT !["owner"] = sendCommand_cmd(speed, radius)]
  /\ io' = io \cup {"write"}
  /\ c_phase' = "sent"
  /\ UNCHANGED <<cfgv, workerv, speed, radius, pc, rx, writing, ownerv,
                 c_found, odomv, finderv>>

\* the written bytes through packet_finder.update
C_parse ==
  /\ c_phase = "sent"
  /\ LET r == PF_update(pf, tx["owner"])
     IN  /\ pf' = r.pf
         /\ c_found' = r.count
  /\ c_phase' = "parsed"
  /\ UNCHANGED <<cfgv, data_buffer, sig_index, buf, get_packet, it, trace,
                 frame, signalled, sendv, serialv, speed, radius, pc, rx, ownerv,
                 odomv, finderv>>

NextCodec ==
  \/ \E m \in MotionGrid : C_setCommand(m[1], m[2])
  \/ \E sp \in Int16Samples, rad \in Int16Samples : C_baseControl(sp, rad)
  \/ C_sendCommand
  \/ C_parse

SpecCodec == InitCodec /\ [][NextCodec]_vars

\* C1: sendCommand() writes AA 55 05 01 s_lo s_hi r_lo r_hi CKS with CKS the
\* XOR of bytes 2..7 (LEN, 0x01, both speed bytes, both radius bytes)
C1_ChecksumCoversBytes2To7 ==
  c_phase \in {"sent", "parsed"} =>
    LET head == <<170, 85, 5, 1, Byte0(speed), Byte1(speed),
                  Byte0(radius), Byte1(radius)>>
    IN  tx["owner"] = head \o <<XorRange(head, 3, 8)>>

\* C2: the frame written by sendCommand(), parsed by the packet finder,
\* passes the checksum test and yields exactly one payload
C2_RoundTripOnePayload ==
  c_phase = "parsed" => (checkSum(tx["owner"]) /\ c_found = 1)

\* C10: setCommand stores speed = round(1000 * max(vx + bias*wz/2,
\* vx - bias*wz/2)); setCommand(0.0, 0.5) gives radius 1 and speed 75, frame
\* bytes 4-5 = 4B 00 and bytes 6-7 = 01 00
C10_SpeedRoundedToNearest ==
  (c_phase \in {"set", "sent", "parsed"} /\ call.op = "setCommand") =>
    /\ speed = RoundDiv(Max(2000 * call.vx + bias * call.wz,
                            2000 * call.vx - bias * call.wz), 2000)
    /\ (call.vx = 0 /\ call.wz = 500) =>
         /\ radius = 1
         /\ speed = 75
         /\ c_phase \in {"sent", "parsed"} =>
              SubSeq(tx["owner"], 5, 8) = <<75, 0, 1, 0>>

(***************************************************************************)
(* The device's byte stream                                                *)
(***************************************************************************)
\* a frame as the device sends it: STX STX LEN payload CKS
DeviceFrame(payload) ==
  LET body == <<Len(payload)>> \o payload
  IN  <<STX1, STX2>> \o body \o <<XorRange(body, 1, Len(body))>>

\* pieces of a stream: well-formed frames of recognised sub-records (ids in
\* and out of ascending order, an id twice, a data byte), a frame with an
\* unrecognised id after a recognised one, a frame with a wrong CKS, noise,
\* the start of a frame of the largest length, a length that is too large
StreamItems ==
  { DeviceFrame(<<header_default, 0, header_dock_ir, 0>>),
    DeviceFrame(<<header_dock_ir, 1, 1, header_default, 0>>),
    DeviceFrame(<<header_ir, 0, header_ir, 0>>),
    DeviceFrame(<<header_cliff, 0>>),
    DeviceFrame(<<header_ir, 0, 127, 0>>),
    <<STX1, STX2, 2, header_ir, 0, 1>>,
    <<0, STX1>>,
    <<STX1, STX2, MaxPayload>>,
    <<STX1, STX2, MaxPayload + 1>> }

RECURSIVE StreamsOf(_)
StreamsOf(k) ==
  IF k = 0 THEN {<<>>}
  ELSE LET shorter == StreamsOf(k - 1)
       IN  shorter \cup {s \o i : s \in shorter, i \in StreamItems}

Streams == StreamsOf(MaxFrames)

\* the stream of the runs that interleave the owner with the worker
ConcStreams == {DeviceFrame(<<header_ir, 0>>)}

MotionInputs == {<<250, 500>>, <<0, -500>>}

CommandRecords ==
  { [command |-> "commandBaseControl", speed |-> 100, radius |-> -1,
     bytes |-> <<1, 4, 100, 0, 255, 255>>, ok |-> TRUE],
    [command |-> "commandSound", speed |-> 0, radius |-> 0,
     bytes |-> <<3, 1, 5>>, ok |-> TRUE],
    [command |-> "commandSound", speed |-> 0, radius |-> 0,
     bytes |-> <<>>, ok |-> FALSE] }

Min(a, b) == IF a <= b THEN a ELSE b

(***************************************************************************)
(* Kobuki::init                                                            *)
(***************************************************************************)
init(sim, proto, stream) ==
  /\ pc["owner"] = "idle"
  /\ c_phase = "off"
  /\ protocol_version' = proto
  /\ simulation' = sim
  /\ IF ~sim
       THEN /\ io' = io \cup {"open"}
            /\ pf' = PF_configure
            /\ is_connected' = TRUE
       ELSE UNCHANGED <<io, pf, is_connected>>
  /\ radius' = 0
  /\ speed' = 0
  /\ is_running' = TRUE
  /\ pc' = [worker |-> "loop", owner |-> "ready"]
  /\ rx' = stream
  /\ issued' = {<<0, 0>>}
  /\ done_ops' = done_ops \cup {"init"}
  /\ UNCHANGED <<is_enabled, data_buffer, sig_index, buf, get_packet, it,
                 trace, frame, signalled, sendv, call, calls, writing, tx, codecv>>

(***************************************************************************)
(* Kobuki::runnable, the worker                                            *)
(***************************************************************************)
Event(e, id, name) == [e |-> e, id |-> id, name |-> name]

\* the positions of the events of one kind in the current tick's trace
EventsOf(kind) == {i \in 1 .. Len(trace) : trace[i].e = kind}

\* the header ids for which a signal was emitted in the current tick
SignalledIds == {trace[i].id : i \in EventsOf("sig")}

\* while (is_running): get_packet = false; simulation does nothing more;
\* otherwise serial.read, and n == 0 continues with the next tick
W_loop ==
  /\ pc["worker"] = "loop"
  /\ IF ~is_running
       THEN /\ pc' = [pc EXCEPT !["worker"] = "done"]
            /\ UNCHANGED <<get_packet, trace, signalled, buf, rx, io>>
       ELSE /\ get_packet' = FALSE
            /\ signalled' = signalled \cup SignalledIds
            /\ IF simulation
                 THEN /\ trace' = <<>>
                      /\ UNCHANGED <<pc, buf, rx, io>>
                 ELSE \E n \in 0 .. Min(PF_numberOfDataToRead(pf), Len(rx)) :
                        /\ buf' = SubSeq(rx, 1, n)
                        /\ rx' = SubSeq(rx, n + 1, Len(rx))
                        /\ io' = io \cup {"read"}
                        /\ trace' = <<Event("read", n, "")>>
                        /\ pc' = [pc EXCEPT !["worker"] =
                                    IF n = 0 THEN "loop" ELSE "update"]
  /\ UNCHANGED <<cfgv, speed, radius, pf, data_buffer, sig_index, it, frame,
                 sendv, ownerv, writing, tx, codecv>>

\* packet_finder.update(buf, n); on true getBuffer, three pop_front and,
\* for protocol 2.0, sig_index.clear()
W_update ==
  /\ pc["worker"] = "update"
  /\ LET r == PF_update(pf, buf)
     IN  /\ pf' = r.pf
         /\ IF r.found
              THEN /\ frame' = PF_getBuffer(r.pf)
                   /\ data_buffer' = pop_front3(PF_getBuffer(r.pf))
                   /\ trace' = trace \o <<Event("feed", 0, ""),
                                          Event("found", 0, "")>>
                   /\ IF protocol_version = "2.0"
                        THEN /\ sig_index' = sig_index_clear(sig_index)
                             /\ pc' = [pc EXCEPT !["worker"] = "dispatch"]
                             /\ UNCHANGED get_packet
                        ELSE /\ get_packet' = TRUE
                             /\ pc' = [pc EXCEPT !["worker"] = "tick_end"]
                             /\ UNCHANGED sig_index
              ELSE /\ trace' = Append(trace, Event("feed", 0, ""))
                   /\ pc' = [pc EXCEPT !["worker"] = "tick_end"]
                   /\ UNCHANGED <<frame, data_buffer, sig_index, get_packet>>
  /\ UNCHANGED <<cfgv, speed, radius, buf, it, signalled, rx, sendv, ownerv,
                 serialv, codecv>>

\* a flush that leaves the buffer as it was
data_buffer_kept(db) == db

\* default: data_buffer.clear()
data_buffer_clear(db) == <<>>

\* one pass of while (data_buffer.size() > 1): the switch on data_buffer[0];
\* after the loop the signal loop starts at sig_index.begin()
W_dispatch ==
  /\ pc["worker"] = "dispatch"
  /\ IF Len(data_buffer) > 1
       THEN /\ IF data_buffer[1] \in Recognised
                 THEN /\ sig_index' = sig_index \cup {data_buffer[1]}
                      /\ data_buffer' = deserialise(data_buffer)
                      /\ trace' = Append(trace,
                                         Event("dec", data_buffer[1], ""))
                 ELSE /\ data_buffer' = data_buffer_clear(data_buffer)
                      /\ UNCHANGED <<sig_index, trace>>
            /\ UNCHANGED <<pc, it>>
       ELSE /\ it' = sig_index
            /\ pc' = [pc EXCEPT !["worker"] = "signal"]
            /\ UNCHANGED <<data_buffer, sig_index, trace>>
  /\ UNCHANGED <<cfgv, speed, radius, pf, buf, get_packet, frame, signalled,
                 rx, sendv, ownerv, serialv, codecv>>

\* one pass of for (it = sig_index.begin(); it != sig_index.end(); ++it);
\* after the loop get_packet = true
W_signal ==
  /\ pc["worker"] = "signal"
  /\ IF it # {}
       THEN LET id == set_begin(it)
            IN  /\ trace' = trace \o
                      [k \in 1 .. Len(SignalsOf(id)) |->
                          Event("sig", id, SignalsOf(id)[k])]
                /\ data_buffer' =
                      IF id \in Recognised THEN data_buffer ELSE <<>>
                /\ it' = it \ {id}
                /\ UNCHANGED <<pc, get_packet>>
       ELSE /\ get_packet' = TRUE
            /\ pc' = [pc EXCEPT !["worker"] = "tick_end"]
            /\ UNCHANGED <<trace, data_buffer, it>>
  /\ UNCHANGED <<cfgv, speed, radius, pf, sig_index, buf, frame, signalled,
                 rx, sendv, ownerv, serialv, codecv>>

\* if (get_packet) { sendCommand(); }
W_tick_end ==
  /\ pc["worker"] = "tick_end"
  /\ pc' = [pc EXCEPT !["worker"] =
              IF tick_sends(get_packet) THEN "sd_speed" ELSE "loop"]
  /\ UNCHANGED <<cfgv, speed, radius, workerv, rx, sendv, ownerv, serialv,
                 codecv>>

(***************************************************************************)
(* Kobuki::sendCommand(), on the thread t that called it                   *)
(***************************************************************************)
\* union_speed.word = speed
sendCommand_speed(t) ==
  /\ pc[t] = "sd_speed"
  /\ union_speed' = [union_speed EXCEPT ![t] = speed]
  /\ pc' = [pc EXCEPT ![t] = "sd_radius"]
  /\ UNCHANGED <<cfgv, speed, radius, workerv, rx, union_radius, ownerv,
                 serialv, codecv>>

\* union_radius.word = radius
sendCommand_radius(t) ==
  /\ pc[t] = "sd_radius"
  /\ union_radius' = [union_radius EXCEPT ![t] = radius]
  /\ pc' = [pc EXCEPT ![t] = "sd_write"]
  /\ UNCHANGED <<cfgv, speed, radius, workerv, rx, union_speed, ownerv,
                 serialv, codecv>>

\* the bytes and the checksum are put together and serial.write(cmd, 9) starts
sendCommand_write(t) ==
  /\ pc[t] = "sd_write"
  /\ writing' = writing \cup {t}
  /\ tx' = [tx EXCEPT ![t] = sendCommand_cmd(union_speed[t], union_radius[t])]
  /\ io' = io \cup {"write"}
  /\ pc' = [pc EXCEPT ![t] = "sd_end"]
  /\ UNCHANGED <<cfgv, speed, radius, workerv, rx, sendv, ownerv, codecv>>

\* serial.write returns; the worker goes on with the next tick, the owner
\* with the rest of stop()
sendCommand_end(t) ==
  /\ pc[t] = "sd_end"
  /\ writing' = writing \ {t}
  /\ pc' = [pc EXCEPT ![t] = IF t = "worker" THEN "loop" ELSE "st_disable"]
  /\ trace' = IF t = "worker" THEN Append(trace, Event("cmd", 0, "")) ELSE trace
  /\ UNCHANGED <<cfgv, speed, radius, pf, data_buffer, sig_index, buf,
                 get_packet, it, frame, signalled, rx, sendv, ownerv, tx, io,
                 codecv>>

(***************************************************************************)
(* The owner's calls                                                       *)
(***************************************************************************)
\* Kobuki::run
run ==
  /\ pc["owner"] = "ready"
  /\ calls < MaxCalls
  /\ is_enabled' = TRUE
  /\ calls' = calls + 1
  /\ call' = [NoCall EXCEPT !.op = "run"]
  /\ done_ops' = done_ops \cup {"run"}
  /\ UNCHANGED <<simulation, protocol_version, is_connected, is_running,
                 speed, radius, workerv, rx, sendv, issued, serialv, pc,
                 codecv>>

\* a call of setCommand(vx, wz) begins
call_setCommand(vx, wz) ==
  /\ pc["owner"] = "ready"
  /\ calls < MaxCalls
  /\ calls' = calls + 1
  /\ call' = [NoCall EXCEPT !.op = "setCommand", !.vx = vx, !.wz = wz]
  /\ issued' = issued \cup
                 {<<setCommand_speed(vx, wz), setCommand_radius(vx, wz)>>}
  /\ pc' = [pc EXCEPT !["owner"] = "sc_radius"]
  /\ UNCHANGED <<cfgv, speed, radius, workerv, rx, sendv, done_ops, serialv,
                 codecv>>

\* a call of stop(), or of close() which calls stop(), begins:
\* setCommand(0.0f, 0.0f) comes first
call_stop(op) ==
  /\ pc["owner"] = "ready"
  /\ calls < MaxCalls
  /\ calls' = calls + 1
  /\ call' = [NoCall EXCEPT !.op = op]
  /\ issued' = issued \cup {<<setCommand_speed(0, 0), setCommand_radius(0, 0)>>}
  /\ pc' = [pc EXCEPT !["owner"] = "sc_radius"]
  /\ UNCHANGED <<cfgv, speed, radius, workerv, rx, sendv, done_ops, serialv,
                 codecv>>

\* setCommand: the if/else chain assigns radius
setCommand_storeRadius ==
  /\ pc["owner"] = "sc_radius"
  /\ radius' = setCommand_radius(call.vx, call.wz)
  /\ pc' = [pc EXCEPT !["owner"] = "sc_speed"]
  /\ UNCHANGED <<cfgv, speed, workerv, rx, sendv, ownerv, serialv, codecv>>

\* setCommand: speed is assigned; stop() goes on with sendCommand()
setCommand_storeSpeed ==
  /\ pc["owner"] = "sc_speed"
  /\ speed' = setCommand_speed(call.vx, call.wz)
  /\ IF call.op = "setCommand"
       THEN /\ pc' = [pc EXCEPT !["owner"] = "ready"]
            /\ done_ops' = done_ops \cup {"setCommand"}
       ELSE /\ pc' = [pc EXCEPT !["owner"] = "sd_speed"]
            /\ UNCHANGED done_ops
  /\ UNCHANGED <<cfgv, radius, workerv, rx, sendv, call, calls, issued,
                 serialv, codecv>>

\* stop(): is_enabled = false; return true (close() then logs and returns)
stop_disable ==
  /\ pc["owner"] = "st_disable"
  /\ is_enabled' = FALSE
  /\ done_ops' = done_ops \cup {call.op}
  /\ pc' = [pc EXCEPT !["owner"] = "ready"]
  /\ UNCHANGED <<simulation, protocol_version, is_connected, is_running,
                 speed, radius, workerv, rx, sendv, call, calls, issued,
                 serialv, codecv>>

\* command_buffer.resize(64): 64 bytes of zero
command_buffer_resize(n) == [i \in 1 .. n |-> 0]

\* sendCommand(record): the bytes handed to serial.write
command_buffer_of(data) ==
  LET pushed == command_buffer_resize(64) \o <<170, 85, 0>> \o data.bytes
      sized  == [pushed EXCEPT ![2 + 1] = (Len(pushed) - 3) % 256]
  IN  Append(sized, XorRange(sized, 2 + 1, Len(sized)))

\* a call of sendCommand(record) begins: the record is copied and serialised
\* (a failed serialise is logged only)
call_sendCommand(data) ==
  /\ pc["owner"] = "ready"
  /\ calls < MaxCalls
  /\ calls' = calls + 1
  /\ call' = [NoCall EXCEPT !.op = "sendCommand", !.data = data]
  /\ issued' = IF data.command = "commandBaseControl"
                 THEN issued \cup {<<data.speed, data.radius>>}
                 ELSE issued
  /\ pc' = [pc EXCEPT !["owner"] = "sr_write"]
  /\ UNCHANGED <<cfgv, speed, radius, workerv, rx, sendv, done_ops, serialv,
                 codecv>>

\* sendCommand(record): length, checksum, and serial.write starts
record_write ==
  /\ pc["owner"] = "sr_write"
  /\ writing' = writing \cup {"owner"}
  /\ tx' = [tx EXCEPT !["owner"] = command_buffer_of(call.data)]
  /\ io' = io \cup {"write"}
  /\ pc' = [pc EXCEPT !["owner"] = "sr_end"]
  /\ UNCHANGED <<cfgv, speed, radius, workerv, rx, sendv, ownerv, codecv>>

\* sendCommand(record): serial.write returns; a base-control record goes on
\* to replace radius and speed
record_end ==
  /\ pc["owner"] = "sr_end"
  /\ writing' = writing \ {"owner"}
  /\ IF call.data.command = "commandBaseControl"
       THEN /\ pc' = [pc EXCEPT !["owner"] = "sr_radius"]
            /\ UNCHANGED done_ops
       ELSE /\ pc' = [pc EXCEPT !["owner"] = "ready"]
            /\ done_ops' = done_ops \cup {"sendCommand"}
  /\ UNCHANGED <<cfgv, speed, radius, workerv, rx, sendv, call, calls, issued,
                 tx, io, codecv>>

\* radius = kobuki_command.data.radius
record_storeRadius ==
  /\ pc["owner"] = "sr_radius"
  /\ radius' = call.data.radius
  /\ pc' = [pc EXCEPT !["owner"] = "sr_speed"]
  /\ UNCHANGED <<cfgv, speed, workerv, rx, sendv, ownerv, serialv, codecv>>

\* speed = kobuki_command.data.speed
record_storeSpeed ==
  /\ pc["owner"] = "sr_speed"
  /\ speed' = call.data.speed
  /\ done_ops' = done_ops \cup {"sendCommand"}
  /\ pc' = [pc EXCEPT !["owner"] = "ready"]
  /\ UNCHANGED <<cfgv, radius, workerv, rx, sendv, call, calls, issued,
                 serialv, codecv>>

(***************************************************************************)
(* Specifications                                                          *)
(***************************************************************************)
Worker ==
  \/ W_loop
  \/ W_update
  \/ W_dispatch
  \/ W_signal
  \/ W_tick_end
  \/ sendCommand_speed("worker")
  \/ sendCommand_radius("worker")
  \/ sendCommand_write("worker")
  \/ sendCommand_end("worker")

\* the worker over every stream; the owner only calls init
Next ==
  \/ \E sim \in BOOLEAN, proto \in {"2.0", "1.0"}, stream \in Streams :
        init(sim, proto, stream)
  \/ Worker

Spec == Init /\ [][Next]_vars

Owner ==
  \/ run
  \/ \E m \in MotionInputs : call_setCommand(m[1], m[2])
  \/ \E op \in {"stop", "close"} : call_stop(op)
  \/ \E data \in CommandRecords : call_sendCommand(data)
  \/ setCommand_storeRadius
  \/ setCommand_storeSpeed
  \/ sendCommand_speed("owner")
  \/ sendCommand_radius("owner")
  \/ sendCommand_write("owner")
  \/ sendCommand_end("owner")
  \/ stop_disable
  \/ record_write
  \/ record_end
  \/ record_storeRadius
  \/ record_storeSpeed

\* the owner's calls interleaved with the worker
NextConc ==
  \/ \E sim \in BOOLEAN, stream \in ConcStreams : init(sim, "2.0", stream)
  \/ Worker
  \/ Owner

SpecConc == Init /\ [][NextConc]_vars

(***************************************************************************)
(* Properties of the worker's tick                                         *)
(***************************************************************************)
\* C3: without simulation, a tick in which the packet finder reported a
\* frame ends with exactly one motion command, written after every signal of
\* the frame; a tick whose read returned no byte feeds nothing, and a tick
\* that completed no frame decodes nothing, signals nothing and writes no
\* command; after either the loop is at its head again and still running
C3_OneCommandPerFrame ==
  ~simulation =>
    /\ \A i \in EventsOf("cmd") : i = Len(trace)
    /\ EventsOf("found") = {} =>
         EventsOf("dec") \cup EventsOf("sig") \cup EventsOf("cmd") = {}
    /\ (trace # <<>> /\ trace[1].e = "read" /\ trace[1].id = 0) =>
         (Len(trace) = 1 /\ pc["worker"] = "loop")
    /\ pc["worker"] = "loop" =>
         /\ (done_ops # {} => is_running)
         /\ EventsOf("found") # {} => EventsOf("cmd") = {Len(trace)}

C3_Witness ==
  /\ ~simulation
  /\ pc["worker"] = "loop"
  /\ EventsOf("found") # {}
  /\ EventsOf("sig") # {}
  /\ EventsOf("cmd") = {Len(trace)}

\* C4: the signals of a frame come in ascending header-id order, no signal
\* twice (also when the id occurs twice in the payload); with the default id
\* present, sensor_data and then joint_state come before every other signal
C4_SignalsAscendingOncePerId ==
  LET sigs == EventsOf("sig")
  IN  /\ \A i \in sigs, j \in sigs :
            i < j =>
              /\ trace[i].name # trace[j].name
              /\ trace[i].id <= trace[j].id
              /\ trace[i].id = trace[j].id =>
                   /\ trace[i].id = header_default
                   /\ trace[i].name = "sensor_data"
                   /\ trace[j].name = "joint_state"
                   /\ j = i + 1
      /\ \A i \in sigs, j \in sigs :
            (trace[i].id = header_default /\ trace[j].id # header_default)
              => i < j
      /\ \A i \in sigs :
            trace[i].name = "sensor_data" =>
              (pc["worker"] # "signal" => \E j \in sigs :
                                            trace[j].name = "joint_state")

\* a frame whose payload names dock_ir before default, signalled in the
\* order sensor_data, joint_state, dock_ir
C4_Witness ==
  /\ Len(frame) > 4
  /\ frame[4] = header_dock_ir
  /\ \E i \in EventsOf("sig") :
        /\ trace[i].name = "sensor_data"
        /\ trace[i + 1].name = "joint_state"
        /\ Len(trace) >= i + 2
        /\ trace[i + 2].name = "dock_ir"

\* the payload of a frame: what lies between LEN and CKS
PayloadOf(f) == SubSeq(f, 4, Len(f) - 1)

\* the header ids of the sub-records HDR SUBLEN DATA that make up a payload
RECURSIVE SubRecordIds(_)
SubRecordIds(p) ==
  IF Len(p) < 2 THEN {}
  ELSE {p[1]} \cup SubRecordIds(SubSeq(p, 2 + p[2] + 1, Len(p)))

\* the payload is a concatenation of whole sub-records with recognised ids
RECURSIVE OnlyRecognised(_)
OnlyRecognised(p) ==
  \/ p = <<>>
  \/ /\ Len(p) >= 2
     /\ p[1] \in Recognised
     /\ 2 + p[2] <= Len(p)
     /\ OnlyRecognised(SubSeq(p, 2 + p[2] + 1, Len(p)))

\* a tick that found a frame is over
FrameTickDone == pc["worker"] = "loop" /\ EventsOf("found") # {}

\* C5 as stated: for frames of recognised sub-records only, the ids signalled
\* for a frame are exactly the header ids present in that frame
C5_SignalledIdsAreFrameIds ==
  (FrameTickDone /\ OnlyRecognised(PayloadOf(frame))) =>
    SignalledIds = SubRecordIds(PayloadOf(frame))

\* C5 amended: the same, when protocol_version is "2.0"
C5_SignalledIdsAreFrameIds_Protocol2 ==
  (FrameTickDone /\ OnlyRecognised(PayloadOf(frame))
     /\ protocol_version = "2.0") =>
    SignalledIds = SubRecordIds(PayloadOf(frame))

\* a second frame that lacks an id signalled for an earlier frame
C5_Witness ==
  /\ FrameTickDone
  /\ OnlyRecognised(PayloadOf(frame))
  /\ protocol_version = "2.0"
  /\ SignalledIds # {}
  /\ signalled \ SignalledIds # {}
  /\ SignalledIds = SubRecordIds(PayloadOf(frame))

(***************************************************************************)
(* Properties of the owner's calls running beside the worker               *)
(***************************************************************************)
\* C6: once stop() (or close(), which calls it) has returned, is_running is
\* false, so that the worker's while (is_running) ends
C6_StopClearsIsRunning ==
  ({"stop", "close"} \cap done_ops # {}) => ~is_running

\* C7: no two serial.write calls are in progress at the same time
C7_WritesMutuallyExclusive == Cardinality(writing) <= 1

\* C8: the speed and the radius of every motion frame written by the worker
\* were stored together by one call (or are the initial 0, 0)
C8_PairStoredTogether ==
  tx["worker"] # <<>> =>
    \E p \in issued :
      SubSeq(tx["worker"], 5, 8) =
        <<Byte0(p[1]), Byte1(p[1]), Byte0(p[2]), Byte1(p[2])>>

\* C9: in simulation mode no serial open, read or write occurs and no
\* observer signal is emitted
C9_SimulationNoSerialIO ==
  simulation => (io = {} /\ EventsOf("sig") = {} /\ signalled = {})

\* C11: setCommand stores radius 0 for wz = 0, 1 for vx = 0 and wz > 0, -1
\* for vx = 0 and wz < 0, and otherwise round(vx * 1000 / wz), the nearest
\* integer, a signed 16-bit value
C11_RadiusRoundedToNearest ==
  (c_phase \in {"set", "sent", "parsed"} /\ call.op = "setCommand") =>
    /\ radius \in -32768 .. 32767
    /\ radius = IF call.wz = 0 THEN 0
                ELSE IF call.vx = 0 /\ call.wz > 0 THEN 1
                ELSE IF call.vx = 0 /\ call.wz < 0 THEN -1
                ELSE RoundDiv(call.vx * 1000, call.wz)


Abs(x) == IF x < 0 THEN -x ELSE x

\* C12: the speed and the radius stored by setCommand(vx, wz) and by
\* setCommand(-vx, -wz) are equal up to sign
C12_SymmetricUnderNegation ==
  (c_phase \in {"set", "sent", "parsed"} /\ call.op = "setCommand") =>
    /\ Abs(speed) = Abs(setCommand_speed(-call.vx, -call.wz))
    /\ Abs(radius) = Abs(setCommand_radius(-call.vx, -call.wz))

(***************************************************************************)
(* Odometry: updateOdometry on the default records a device delivers.      *)
(* Positions are counted in ticks (last_rad / tick_to_rad), times in       *)
(* milliseconds, a velocity is the pair of its delta and its dt            *)
(***************************************************************************)
MaxUpdates == 3
MaxInits == 2

TimeSamples == {0, 20, 65530}
LeftSamples == {0, 5, 32768, 65530, 65535}
RightSamples == {0, 65535}

mainv ==
  <<cfgv, workerv, sendv, ownerv, serialv, pc, rx, speed, radius, c_phase,
    c_found>>

\* the difference without the reinterpretation as a signed value
tick_diff_unsigned(curr_tick, last_tick) == (curr_tick - last_tick) % 65536

\* updateOdometry: (short)((curr_tick - last_tick) & 0xffff)
tick_diff(curr_tick, last_tick) == Short((curr_tick - last_tick) % 65536)

\* a test that takes every update for a new timestamp
timestamp_changed_always(curr_timestamp, last) == TRUE

\* updateOdometry: if (curr_timestamp != last_timestamp)
timestamp_changed(curr_timestamp, last) == curr_timestamp # last

\* the odometry fields a claim compares across one updateOdometry
OdometryFields ==
  [last_tick_left |-> last_tick_left, last_tick_right |-> last_tick_right,
   last_rad_left |-> last_rad_left, last_rad_right |-> last_rad_right,
   last_timestamp |-> last_timestamp, last_diff_time |-> last_diff_time,
   last_velocity_left |-> last_velocity_left,
   last_velocity_right |-> last_velocity_right]

InitOdom ==
  Constructed /\ c_phase = "off" /\ o_phase = "off" /\ f_phase = "off"

\* Kobuki::init, the odometry fields it assigns; the statics init_l and
\* init_r of updateOdometry are not fields and stay as they are
init_odometry ==
  /\ last_tick_left' = 0
  /\ last_tick_right' = 0
  /\ last_rad_left' = 0
  /\ last_rad_right' = 0
  /\ o_inits' = o_inits + 1
  /\ o_phase' = "init"
  /\ UNCHANGED <<mainv, finderv, kobuki_default, init_l, init_r,
                 last_timestamp, last_diff_time, last_velocity_left,
                 last_velocity_right, wheel_left_velocity,
                 wheel_right_velocity, before, history>>

\* the first init() of the process
odom_init ==
  /\ o_phase = "off"
  /\ init_odometry

\* a later init(): the driver is initialised again, or a second driver is
\* initialised in the same process
odom_reinit ==
  /\ o_phase \in {"init", "updated"}
  /\ o_inits < MaxInits
  /\ init_odometry

\* runnable, case kobuki_comms::Header::header_default: a default record
\* is deserialised into kobuki_default
default_record(ts, l, r) ==
  /\ o_phase \in {"init", "updated"}
  /\ Len(history) < MaxUpdates
  /\ kobuki_default' = [time_stamp |-> ts, left_encoder |-> l,
                        right_encoder |-> r]
  /\ o_phase' = "sampled"
  /\ UNCHANGED <<mainv, finderv, init_l, init_r, last_tick_left,
                 last_tick_right, last_rad_left, last_rad_right,
                 last_timestamp, last_diff_time, last_velocity_left,
                 last_velocity_right, wheel_left_velocity,
                 wheel_right_velocity, o_inits, before, history>>

\* Kobuki::updateOdometry, called on the record kobuki_default holds (a
\* caller may call it again before the next record arrives)
updateOdometry ==
  /\ o_phase \in {"sampled", "updated"}
  /\ Len(history) < MaxUpdates
  /\ LET curr_timestamp == kobuki_default.time_stamp
         curr_tick_left == kobuki_default.left_encoder
         curr_tick_right == kobuki_default.right_encoder
         seed_left == IF ~init_l THEN curr_tick_left ELSE last_tick_left
         seed_right == IF ~init_r THEN curr_tick_right ELSE last_tick_right
         left_diff_ticks == tick_diff(curr_tick_left, seed_left)
         right_diff_ticks == tick_diff(curr_tick_right, seed_right)
         changed == timestamp_changed(curr_timestamp, last_timestamp)
         diff_time == Short((curr_timestamp - last_timestamp) % 65536)
     IN  /\ init_l' = TRUE
         /\ init_r' = TRUE
         /\ last_tick_left' = curr_tick_left
         /\ last_tick_right' = curr_tick_right
         /\ last_rad_left' = last_rad_left + left_diff_ticks
         /\ last_rad_right' = last_rad_right + right_diff_ticks
         /\ last_diff_time' = IF changed THEN diff_time ELSE last_diff_time
         /\ last_timestamp' =
              IF changed THEN curr_timestamp ELSE last_timestamp
         /\ last_velocity_left' =
              IF changed THEN Velocity(left_diff_ticks, diff_time)
              ELSE last_velocity_left
         /\ last_velocity_right' =
              IF changed THEN Velocity(right_diff_ticks, diff_time)
              ELSE last_velocity_right
         /\ wheel_left_velocity' =
              IF changed THEN Velocity(left_diff_ticks, diff_time)
              ELSE ZeroVelocity
         /\ wheel_right_velocity' =
              IF changed THEN Velocity(right_diff_ticks, diff_time)
              ELSE ZeroVelocity
         /\ history' = Append(history,
              [sample |-> kobuki_default, init |-> o_inits,
               left_diff_ticks |-> left_diff_ticks,
               right_diff_ticks |-> right_diff_ticks])
  /\ before' = OdometryFields
  /\ o_phase' = "updated"
  /\ UNCHANGED <<mainv, finderv, kobuki_default, o_inits>>

NextOdom ==
  \/ odom_init
  \/ \E ts \in TimeSamples, l \in LeftSamples, r \in RightSamples :
       default_record(ts, l, r)
  \/ updateOdometry

SpecOdom == InitOdom /\ [][NextOdom]_vars

NextOdomInit ==
  \/ NextOdom
  \/ odom_reinit

SpecOdomInit == InitOdom /\ [][NextOdomInit]_vars

\* the deltas d of a 16-bit counter that went from p to c: congruent to
\* c - p modulo 2^16 and representable as a signed 16-bit value
IsSignedWrapDiff16(d, c, p) ==
  /\ d \in -32768 .. 32767
  /\ (d - (c - p)) % 65536 = 0

SumLeft(h) == LET S[i \in 0 .. Len(h)] ==
                    IF i = 0 THEN 0 ELSE S[i - 1] + h[i].left_diff_ticks
              IN  S[Len(h)]

SumRight(h) == LET S[i \in 0 .. Len(h)] ==
                     IF i = 0 THEN 0 ELSE S[i - 1] + h[i].right_diff_ticks
               IN  S[Len(h)]

\* C13: the tick delta of two successive encoder samples p, c is (c - p)
\* mod 2^16 read as a signed 16-bit value (65530 then 5 gives 11), and the
\* accumulated tick sum is the sum of these deltas, congruent modulo 2^16 to
\* the latest sample minus the first
C13_WrapSafeTickDelta ==
  /\ \A i \in 2 .. Len(history) :
       LET p == history[i - 1].sample
           c == history[i].sample
       IN  /\ IsSignedWrapDiff16(history[i].left_diff_ticks,
                                 c.left_encoder, p.left_encoder)
           /\ IsSignedWrapDiff16(history[i].right_diff_ticks,
                                 c.right_encoder, p.right_encoder)
           /\ (p.left_encoder = 65530 /\ c.left_encoder = 5) =>
                history[i].left_diff_ticks = 11
  /\ Len(history) >= 1 =>
       LET first == history[1].sample
           latest == history[Len(history)].sample
       IN  /\ last_rad_left = SumLeft(history)
           /\ last_rad_right = SumRight(history)
           /\ (last_rad_left - (latest.left_encoder - first.left_encoder))
                % 65536 = 0
           /\ (last_rad_right - (latest.right_encoder - first.right_encoder))
                % 65536 = 0

\* the counter wrapped forward (65530 then 5) and, in the same run, backward
C13_Witness ==
  /\ Len(history) = 3
  /\ history[1].sample.left_encoder = 65530
  /\ history[2].sample.left_encoder = 5
  /\ history[2].left_diff_ticks = 11
  /\ history[3].sample.left_encoder = 65535
  /\ history[3].left_diff_ticks < 0
  /\ last_rad_left = 5

\* C14: when a frame's payload holds an unrecognised header id, no signal is
\* emitted for that frame, not even for the recognised sub-records before it
C14_UnknownIdAbandonsFrame ==
  (FrameTickDone /\ SubRecordIds(PayloadOf(frame)) \ Recognised # {}) =>
    SignalledIds = {}

\* C15: when serialising the record fails in sendCommand(record), nothing is
\* written to the serial port for that call
C15_FailedSerialiseWritesNothing ==
  (call.op = "sendCommand" /\ ~call.data.ok) => "owner" \notin writing

(***************************************************************************)
(* The packet finder on its own: a byte stream cut into successive         *)
(* update calls, getBuffer after every update that returns true            *)
(***************************************************************************)
MaxItems == 2

\* valid frames, a frame with a wrong checksum, a frame cut after LEN, noise
FinderItems ==
  { DeviceFrame(<<7>>),
    DeviceFrame(<<3, 1>>),
    <<STX1, STX2, 1, 7, 7>>,
    <<STX1, STX2, 2>>,
    <<0>>,
    <<STX1>> }

RECURSIVE FinderStreamsOf(_)
FinderStreamsOf(k) ==
  IF k = 0 THEN {<<>>}
  ELSE LET shorter == FinderStreamsOf(k - 1)
       IN  shorter \cup {s \o i : s \in shorter, i \in FinderItems}

FinderStreams == FinderStreamsOf(MaxItems) \ {<<>>}

nonfinderv ==
  <<cfgv, data_buffer, sig_index, buf, get_packet, it, trace, frame,
    signalled, sendv, ownerv, serialv, pc, speed, radius, c_phase, c_found,
    odomv>>

InitFinder ==
  Constructed /\ c_phase = "off" /\ o_phase = "off" /\ f_phase = "idle"

\* the device starts to send the bytes of stream
finder_stream(stream) ==
  /\ f_phase = "idle"
  /\ f_stream' = stream
  /\ rx' = stream
  /\ f_phase' = "feed"
  /\ UNCHANGED <<nonfinderv, pf, f_last, f_taken>>

\* runnable: packet_finder.update(buf, n) on the next n bytes of the stream
finder_update(n) ==
  /\ f_phase = "feed"
  /\ n \in 1 .. Len(rx)
  /\ LET bytes == SubSeq(rx, 1, n)
         r == PF_update(pf, bytes)
     IN  /\ pf' = r.pf
         /\ f_last' = [pf |-> pf, bytes |-> bytes, found |-> r.found]
         /\ f_phase' = IF r.found THEN "found" ELSE "feed"
  /\ rx' = SubSeq(rx, n + 1, Len(rx))
  /\ UNCHANGED <<nonfinderv, f_stream, f_taken>>

\* runnable: update returned true, packet_finder.getBuffer(data_buffer)
finder_getBuffer ==
  /\ f_phase = "found"
  /\ f_taken' = Append(f_taken, PayloadOf(PF_getBuffer(pf)))
  /\ f_phase' = "feed"
  /\ UNCHANGED <<nonfinderv, pf, rx, f_stream, f_last>>

NextFinder ==
  \/ \E stream \in FinderStreams : finder_stream(stream)
  \/ \E n \in 1 .. Len(rx) : finder_update(n)
  \/ finder_getBuffer

SpecFinder == InitFinder /\ [][NextFinder]_vars

\* the last update handed the finder exactly the checksum byte of a frame
VerifiedOneByte ==
  f_last.pf.state = "VerifyChecksum" /\ Len(f_last.bytes) = 1

\* C16: a buffered frame STX STX LEN payload CKS is accepted iff CKS is the
\* XOR of LEN and the payload bytes (iff the XOR of the buffer from index 2
\* to its end is 0); on a mismatch nothing is delivered and the finder
\* resynchronises
C16_AcceptIffChecksumMatches ==
  VerifiedOneByte =>
    LET held == f_last.pf.buffer
        CKS == f_last.bytes[1]
        whole == Append(held, CKS)
        matches == CKS = XorRange(held, 3, Len(held))
    IN  /\ f_last.found <=> matches
        /\ matches <=> (XorRange(whole, 3, Len(whole)) = 0)
        /\ f_last.found => PF_getBuffer(pf) = whole
        /\ ~f_last.found =>
             /\ f_phase = "feed"
             /\ pf.state = "WaitSTX1"
             /\ pf.buffer = <<>>
             /\ pf.packet = f_last.pf.packet

\* a frame was accepted and taken, and then a frame with a wrong checksum
\* was dropped
C16_Witness ==
  /\ VerifiedOneByte
  /\ ~f_last.found
  /\ f_taken # <<>>
  /\ pf.state = "WaitSTX1"

\* s holds, from index i on, a whole frame STX STX LEN payload CKS with
\* LEN in 1 .. MaxPayload and CKS the XOR of LEN and the payload
ValidFrameAt(s, i) ==
  /\ i + 3 <= Len(s)
  /\ s[i] = STX1
  /\ s[i + 1] = STX2
  /\ s[i + 2] \in 1 .. MaxPayload
  /\ i + 3 + s[i + 2] <= Len(s)
  /\ s[i + 3 + s[i + 2]] = XorRange(s, i + 2, i + 2 + s[i + 2])

\* the stream is the bytes fed so far and all of them went through update,
\* every found frame taken
StreamConsumed == f_phase = "feed" /\ rx = <<>> /\ f_stream # <<>>

\* C17: after any prefix (noise, a corrupted or a truncated frame) followed
\* by a valid frame, the finder has emitted that frame's payload once the
\* frame's last byte is in
C17_GarbageNeverBlocksFrame ==
  StreamConsumed =>
    \A i \in 1 .. Len(f_stream) :
      (ValidFrameAt(f_stream, i) /\ i + 3 + f_stream[i + 2] = Len(f_stream))
        => /\ f_taken # <<>>
           /\ f_taken[Len(f_taken)] =
                SubSeq(f_stream, i + 3, i + 2 + f_stream[i + 2])

\* the payloads of the valid frames of s, scanning s from index i
RECURSIVE ValidPayloads(_, _)
ValidPayloads(s, i) ==
  IF i > Len(s) THEN <<>>
  ELSE IF ValidFrameAt(s, i)
         THEN <<SubSeq(s, i + 3, i + 2 + s[i + 2])>>
                \o ValidPayloads(s, i + 4 + s[i + 2])
         ELSE ValidPayloads(s, i + 1)

\* C18: however the byte sequence is cut into update calls, the payloads
\* taken are the payloads of the valid frames of the sequence, in order
C18_StreamCorrectUnderSlicing ==
  StreamConsumed => f_taken = ValidPayloads(f_stream, 1)

\* the updates that are the first one after an init()
FirstAfterInit ==
  {i \in 1 .. Len(history) : i = 1 \/ history[i].init # history[i - 1].init}

\* C19: the first updateOdometry after any init() (a second init() or a
\* second driver in the same process included) sets last_tick to the
\* current encoder value and uses a tick delta of 0 for each wheel, so the
\* accumulated position stays 0 whatever the encoder's value
C19_FirstUpdateAfterInitHasDeltaZero ==
  /\ \A i \in FirstAfterInit :
       history[i].left_diff_ticks = 0 /\ history[i].right_diff_ticks = 0
  /\ (o_phase = "updated" /\ Len(history) \in FirstAfterInit) =>
       /\ last_tick_left = kobuki_default.left_encoder
       /\ last_tick_right = kobuki_default.right_encoder
       /\ last_rad_left = 0
       /\ last_rad_right = 0

\* the record and the deltas of the last updateOdometry
LastUpdate == history[Len(history)]

\* C20: an update that sees curr_timestamp = last_timestamp reports both
\* wheel velocities as 0 and leaves last_timestamp, last_diff_time and the
\* stored last_velocity_left/right as they were, while the positions advance
\* by the tick deltas; when the timestamps differ, last_diff_time becomes
\* the signed 16-bit wrap difference (over 1000, in seconds), never 0
C20_EqualTimestampReportsZeroVelocity ==
  (o_phase = "updated" /\ history # <<>>) =>
    LET curr_timestamp == LastUpdate.sample.time_stamp
    IN  /\ last_rad_left = before.last_rad_left + LastUpdate.left_diff_ticks
        /\ last_rad_right = before.last_rad_right + LastUpdate.right_diff_ticks
        /\ curr_timestamp = before.last_timestamp =>
             /\ wheel_left_velocity = ZeroVelocity
             /\ wheel_right_velocity = ZeroVelocity
             /\ last_timestamp = before.last_timestamp
             /\ last_diff_time = before.last_diff_time
             /\ last_velocity_left = before.last_velocity_left
             /\ last_velocity_right = before.last_velocity_right
        /\ curr_timestamp # before.last_timestamp =>
             /\ IsSignedWrapDiff16(last_diff_time, curr_timestamp,
                                   before.last_timestamp)
             /\ last_diff_time # 0
             /\ last_timestamp = curr_timestamp

\* a wheel moved between two records that carry the same timestamp, after
\* an update that measured a velocity across a timestamp wrap
C20_Witness ==
  /\ o_phase = "updated"
  /\ Len(history) = 3
  /\ LastUpdate.sample.time_stamp = before.last_timestamp
  /\ LastUpdate.left_diff_ticks # 0
  /\ wheel_left_velocity = ZeroVelocity
  /\ last_velocity_left.num # 0
  /\ last_diff_time = 26
  /\ last_rad_left # before.last_rad_left

(***************************************************************************)
(* Progress of the worker: the thread started by init() keeps being        *)
(* scheduled, so each step of a tick after update, once possible, is taken *)
(***************************************************************************)
SpecLive ==
  /\ Init
  /\ [][Next]_vars
  /\ WF_vars(W_dispatch)
  /\ WF_vars(W_signal)
  /\ WF_vars(W_tick_end)
  /\ WF_vars(sendCommand_speed("worker"))
  /\ WF_vars(sendCommand_radius("worker"))
  /\ WF_vars(sendCommand_write("worker"))
  /\ WF_vars(sendCommand_end("worker"))

\* C21: whatever the payload (unknown header ids, a residue byte), the
\* dispatch loop ends and the worker goes on through the signal loop and
\* the command emission to its next tick
C21_DispatchTerminates ==
  (pc["worker"] = "dispatch") ~>
    (pc["worker"] = "loop" /\ EventsOf("found") # {}
       /\ EventsOf("cmd") = {Len(trace)})

\* the tick of a frame with an unknown header id after a recognised
\* sub-record is over, its command sent
C21_Witness ==
  /\ FrameTickDone
  /\ protocol_version = "2.0"
  /\ SubRecordIds(PayloadOf(frame)) \ Recognised # {}
  /\ EventsOf("dec") # {}
  /\ EventsOf("cmd") = {Len(trace)}
  /\ data_buffer = <<>>

\* C22: in every state of the worker the number of bytes it asks the
\* serial port for, packet_finder.numberOfDataToRead(), is at least 1 and at
\* most 65, so that a read stays inside the 256 bytes of buf
C22_ReadRequestBounded ==
  /\ PF_numberOfDataToRead(pf) \in 1 .. 65
  /\ Len(buf) <= 65

\* the worker is about to ask for 65 bytes: a length byte of 64 came in
C22_Witness ==
  /\ pc["worker"] = "loop"
  /\ is_running
  /\ ~simulation
  /\ pf.state = "ReadPayload"
  /\ PF_numberOfDataToRead(pf) = 65
  /\ rx # <<>>
====
